---- MODULE Spec2Model ----
(***************************************************************************)
(* Model of app.py, the Streamlit phone recommender: the catalog           *)
(* (phones_df), the similarity matrix (cosine_sim), get_recs, the          *)
(* filter step, and the session state a sequence of script runs leaves     *)
(* behind.                                                                 *)
(*                                                                         *)
(* Conventions.  Strings that the code builds or compares character by     *)
(* character (Brand, Model, display_name) are sequences of one-character   *)
(* strings, so that .str.strip() and the " - " join are computed.          *)
(* Positions are 0-based as in the code; At(s, i) reads position i of a    *)
(* list.  Python's None is the empty tuple and a present value v is <<v>>. *)
(* A DataFrame is [columns |-> <<names>>, rows |-> <<row, ...>>], a row    *)
(* being a function from column name to value.  The numbers of the         *)
(* catalog are fixed-point, in tenths: 15 is 1.5, and int() cuts a value   *)
(* down to whole units.  Similarity scores are integers, the code only     *)
(* compares them.                                                          *)
(*                                                                         *)
(* The catalog carries pandas' default index 0..N-1, so the "index" column *)
(* read by line 18 is the row position, and the matrix is square of the    *)
(* catalog's size.                                                         *)
(*                                                                         *)
(* Streamlit runs the whole script once per interaction.  What the model   *)
(* takes from Streamlit: a button is True only in the run its click        *)
(* starts; a widget inside a form changes value only when the form is      *)
(* submitted, any other widget changes value at once and starts a run; an  *)
(* element built through st.sidebar.<element> goes to the sidebar itself,  *)
(* whatever "with" block the call stands in, so of the widgets of lines    *)
(* 143-168 only the Brand multiselect and the submit button belong to      *)
(* filters_form and the sliders of safe_slider do not; a widget is         *)
(* identified by its key and parameters; the session entry of a widget     *)
(* that a run does not build is readable during that run and dropped when  *)
(* the run completes; assigning to the key of a widget already built in    *)
(* the run raises StreamlitAPIException.                                   *)
(***************************************************************************)
EXTENDS Integers, Sequences, FiniteSets, TLC

VARIABLES
    phones_df,       \* the catalog rows, in catalog order (app.py:9)
    cosine_sim,      \* the similarity matrix, a list of rows (app.py:10)
    call,            \* the last direct call of get_recs: its arguments and outcome
    selected_label,  \* st.session_state.selected_label
    recs,            \* st.session_state.recs
    filtered,        \* st.session_state.filtered
    suggest_select,  \* value of the "Matches" selectbox
    browse_select,   \* value of the "All models" selectbox
    k_topn,          \* value of the "Top-N" number input
    fwidgets,        \* session-state entries of the filter widgets (f_brands, f_price, ...)
    recs_label,      \* history: the label passed to get_recs for the stored recs
    applied,         \* history: the predicate values the stored filtered view was computed with
    asked,           \* history: chosen_now of the last run if "Find similar" started it, else None
    shown            \* what the last script run displayed

vars == <<phones_df, cosine_sim, call, selected_label, recs, filtered,
          suggest_select, browse_select, k_topn, fwidgets, recs_label,
          applied, asked, shown>>

sessionVars == <<selected_label, recs, filtered, suggest_select, browse_select,
                 k_topn, fwidgets, recs_label, applied, asked, shown>>

----------------------------------------------------------------------------
(* Bounds of the model *)

MaxEntities == 3    \* catalog sizes 0..MaxEntities for direct calls of get_recs
MaxScore == 1       \* similarity scores 0..MaxScore
MaxN == 3           \* n of a direct call ranges over 0..MaxN
TopNChoices == 1    \* the Top-N input takes its default and its first TopNChoices values

(* Program constants *)

TopNMin == 5
TopNMax == 50
TopNDefault == 10

----------------------------------------------------------------------------
(* Python values *)

None == <<>>
Some(v) == <<v>>
IsNone(o) == o = <<>>
Val(o) == o[1]

At(s, i) == s[i + 1]

Abs(x) == IF x >= 0 THEN x ELSE 0 - x

Min2(a, b) == IF a <= b THEN a ELSE b
Max2(a, b) == IF a >= b THEN a ELSE b

SeqMin(s) == CHOOSE m \in {s[k] : k \in 1..Len(s)} : \A k \in 1..Len(s) : m <= s[k]
SeqMax(s) == CHOOSE m \in {s[k] : k \in 1..Len(s)} : \A k \in 1..Len(s) : m >= s[k]

\* int(x): x cut towards zero to whole units
int_of(x) == IF x >= 0 THEN (x \div 10) * 10 ELSE 0 - (((0 - x) \div 10) * 10)

\* s[:n] of a Python list, n of either sign
SliceTo(s, n) ==
    IF n >= 0 THEN SubSeq(s, 1, Min2(n, Len(s)))
    ELSE SubSeq(s, 1, Max2(Len(s) + n, 0))

\* The characters str.strip() removes, that is those for which str.isspace()
\* holds, as far as a string of this module can hold them: tab, newline,
\* vertical tab, form feed, carriage return, the separators U+001C..U+001F,
\* space, next line U+0085, no-break space U+00A0 and ogham space U+1680.
\* The other sixteen (U+2000..U+200A, U+2028, U+2029, U+202F, U+205F,
\* U+3000) cannot be written in a string of a module; Strip agrees with
\* str.strip() on every string without them.
Whitespace ==
    {"\t", "\n", "", "\f", "\r", "", "", "", "", " ",
     "", " ", " "}

RECURSIVE LStrip(_)
LStrip(s) ==
    IF s # <<>> /\ Head(s) \in Whitespace THEN LStrip(Tail(s)) ELSE s

RECURSIVE RStrip(_)
RStrip(s) ==
    IF s # <<>> /\ s[Len(s)] \in Whitespace THEN RStrip(SubSeq(s, 1, Len(s) - 1)) ELSE s

\* str.strip()
Strip(s) == RStrip(LStrip(s))

Separator == <<" ", "-", " ">>

----------------------------------------------------------------------------
(* The catalog *)

NumCols == <<"Price", "RAM", "Storage", "Screen Size", "Battery Capacity", "main_camera_mp">>

cols == <<"Brand", "Model">> \o NumCols

EmptyFrame == [columns |-> <<>>, rows |-> <<>>]

FrameEmpty(f) == Len(f.columns) = 0 \/ Len(f.rows) = 0

\* phones_df["display_name"] of one row
display_name(row) == Strip(row["Brand"]) \o Separator \o Strip(row["Model"])

all_labels(df) == [k \in 1..Len(df) |-> display_name(df[k])]

LabelSet(df) == {display_name(df[k]) : k \in 1..Len(df)}

\* indices.loc[display_name], first occurrence when the label is duplicated
indices(df, label) ==
    CHOOSE i \in 0..(Len(df) - 1) :
        /\ display_name(At(df, i)) = label
        /\ \A j \in 0..(i - 1) : display_name(At(df, j)) # label

----------------------------------------------------------------------------
(* get_recs *)

enumerate(row) == [k \in 1..Len(row) |-> <<k - 1, row[k]>>]

\* a faulty variant of InsertDesc: equal scores end up in reverse position order
InsertDescUnstable(sorted, t) ==
    LET ahead == {k \in 1..Len(sorted) : sorted[k][2] > t[2]}
        cut == IF ahead = {} THEN 0 ELSE CHOOSE k \in ahead : \A m \in ahead : m <= k
    IN SubSeq(sorted, 1, cut) \o <<t>> \o SubSeq(sorted, cut + 1, Len(sorted))

\* place pair t behind every pair already there whose score is >= its own
InsertDesc(sorted, t) ==
    LET ahead == {k \in 1..Len(sorted) : sorted[k][2] >= t[2]}
        cut == IF ahead = {} THEN 0 ELSE CHOOSE k \in ahead : \A m \in ahead : m <= k
    IN SubSeq(sorted, 1, cut) \o <<t>> \o SubSeq(sorted, cut + 1, Len(sorted))

RECURSIVE SortPrefix(_, _)
SortPrefix(pairs, k) ==
    IF k = 0 THEN <<>> ELSE InsertDesc(SortPrefix(pairs, k - 1), pairs[k])

\* list.sort(key=lambda t: t[1], reverse=True): descending and stable
sort_desc(pairs) == SortPrefix(pairs, Len(pairs))

\* a faulty variant of NotSelf: the self-match is assumed to sort first and is not filtered
NotSelfKeepAll(idx, t) == TRUE

NotSelf(idx, t) == t[1] # idx

RECURSIVE Keep(_, _)
Keep(pairs, idx) ==
    IF pairs = <<>> THEN <<>>
    ELSE (IF NotSelf(idx, Head(pairs)) THEN <<Head(pairs)>> ELSE <<>>) \o Keep(Tail(pairs), idx)

\* a faulty variant of Take: one candidate too many
TakeOneMore(pairs, n) == SliceTo(pairs, n + 1)

Take(pairs, n) == SliceTo(pairs, n)

\* top = [(i, s) for i, s in sim_scores if i != idx][:n]
top(sim_scores, idx, n) == Take(Keep(sim_scores, idx), n)

Project(row) == [c \in {cols[k] : k \in 1..Len(cols)} |-> row[c]]

\* phones_df.iloc[ids][cols].reset_index(drop=True)
iloc(df, ids) == [columns |-> cols, rows |-> [k \in 1..Len(ids) |-> Project(At(df, ids[k]))]]

\* a faulty variant of NotFound: the guards come after the matrix row has been read
NotFoundAfterRead == [ret |-> EmptyFrame, ids |-> <<>>, read |-> {0}]

NotFound == [ret |-> EmptyFrame, ids |-> <<>>, read |-> {}]

Resolves(df, label) == label \in LabelSet(df)

\* One execution of get_recs: the returned frame, the local ids, and the rows
\* of cosine_sim it read.
get_recs_run(df, sim, label, n) ==
    IF ~Resolves(df, label) THEN NotFound
    ELSE
        LET idx == indices(df, label)
        IN IF idx < 0 \/ idx >= Len(sim) THEN NotFound
           ELSE
               LET row == At(sim, idx)
                   sim_scores == sort_desc(enumerate(row))
                   t == top(sim_scores, idx, n)
                   ids == [k \in 1..Len(t) |-> t[k][1]]
               IN [ret |-> iloc(df, ids), ids |-> ids, read |-> {idx}]

get_recs(df, sim, label, n) == get_recs_run(df, sim, label, n).ret

----------------------------------------------------------------------------
(* Order of strings, for sorted(all_labels) *)

CharOrder == <<" ", "-", "A", "B", "Z", "m", "x", "y">>

Ord(ch) == CHOOSE k \in 1..Len(CharOrder) : CharOrder[k] = ch

RECURSIVE LexLeq(_, _)
LexLeq(a, b) ==
    IF a = <<>> THEN TRUE
    ELSE IF b = <<>> THEN FALSE
    ELSE IF Ord(Head(a)) # Ord(Head(b)) THEN Ord(Head(a)) < Ord(Head(b))
    ELSE LexLeq(Tail(a), Tail(b))

\* sorted(all_labels)[0], the initial value of the "All models" selectbox
FirstSorted(df) == CHOOSE l \in LabelSet(df) : \A m \in LabelSet(df) : LexLeq(l, m)

\* ranked_options(query, all_labels, topk=50) as a set: every option gets a
\* score and none is dropped before the cut at topk, which no catalog of the
\* model reaches; so the suggestions are the labels in the order the query
\* ranks them, and any label can be the one selected
Suggestions(df) == LabelSet(df)

\* the session state the first script run leaves, before any interaction
SessionStart ==
    /\ selected_label = None
    /\ recs = None
    /\ filtered = None
    /\ suggest_select = IF Len(phones_df) > 0 THEN Some(all_labels(phones_df)[1]) ELSE None
    /\ browse_select = IF Len(phones_df) > 0 THEN Some(FirstSorted(phones_df)) ELSE None
    /\ k_topn = TopNDefault
    /\ fwidgets = <<>>
    /\ recs_label = None
    /\ applied = None
    /\ asked = None
    /\ shown = {"run_btn"}

----------------------------------------------------------------------------
(* Direct calls of get_recs on bounded catalogs and matrices *)

Scores == 0..MaxScore

BrandA == <<"A">>
BrandB == <<"B">>

\* Row i of a generated catalog: the brand is chosen, the model is "m" bare
\* or wrapped in whitespace, the price tells the positions apart.
MakeRow(brand, i) ==
    ("Brand" :> brand) @@
    ("Model" :> (IF i % 2 = 0 THEN <<"m">> ELSE <<"\t", "", "m", " ", "", "\n">>)) @@
    ("Price" :> 1000 + 10 * i) @@ ("RAM" :> 40) @@ ("Storage" :> 640) @@
    ("Screen Size" :> 61) @@ ("Battery Capacity" :> 40000) @@ ("main_camera_mp" :> 120)

Catalogs ==
    UNION {{[k \in 1..N |-> MakeRow(b[k], k - 1)] : b \in [1..N -> {BrandA, BrandB}]} :
           N \in 0..MaxEntities}

\* The matrices of the direct calls: every entity has a feature value f[i],
\* two entities are the more similar the closer their features are, and the
\* diagonal holds one self-similarity value d, which need not be the largest
\* entry of a row.  Every row of scores over Scores occurs as a row of one
\* of these symmetric matrices.
Matrices(N) ==
    {[i \in 1..N |-> [j \in 1..N |->
          IF i = j THEN d ELSE MaxScore - Abs(f[i] - f[j])]] :
       d \in Scores, f \in [1..N -> Scores]}

\* Labels a caller may pass: two that can resolve, one with the whitespace
\* of the raw Model column left in, one that no catalog contains.
QueryLabels ==
    {BrandA \o Separator \o <<"m">>, BrandB \o Separator \o <<"m">>,
     BrandA \o Separator \o <<"m", " ">>, <<"Z">>}

InitRecs ==
    /\ phones_df \in Catalogs
    /\ cosine_sim \in Matrices(Len(phones_df))
    /\ call = None
    /\ SessionStart

\* a caller runs get_recs(label, n)
Query(label, n) ==
    /\ call' = Some([label |-> label, n |-> n,
                     out |-> get_recs_run(phones_df, cosine_sim, label, n)])
    /\ UNCHANGED <<phones_df, cosine_sim, sessionVars>>

NextRecs == \E label \in QueryLabels, n \in 0..MaxN : Query(label, n)

SpecRecs == InitRecs /\ [][NextRecs]_vars

----------------------------------------------------------------------------
(* The filter step of the results block *)

\* a faulty variant of between: the upper bound is exclusive
between_open(v, lo, hi) == lo <= v /\ v < hi

\* Series.between(lo, hi), inclusive on both sides
between(v, lo, hi) == lo <= v /\ v <= hi

\* Series.isin(values)
isin(v, values) == v \in values

\* one entry of the boolean mask of lines 172-179
mask(row, pred) ==
    /\ isin(row["Brand"], pred["Brand"])
    /\ \A k \in 1..Len(NumCols) :
          between(row[NumCols[k]], pred[NumCols[k]][1], pred[NumCols[k]][2])

RECURSIVE select(_, _)
select(rows, pred) ==
    IF rows = <<>> THEN <<>>
    ELSE (IF mask(Head(rows), pred) THEN <<Head(rows)>> ELSE <<>>) \o select(Tail(rows), pred)

\* recs[mask].reset_index(drop=True)
fr_of(frame, pred) == [columns |-> frame.columns, rows |-> select(frame.rows, pred)]

Column(frame, c) == [k \in 1..Len(frame.rows) |-> frame.rows[k][c]]

\* recs["Brand"].unique(); the sorted list is determined by this set
brands_of(frame) == {frame.rows[k]["Brand"] : k \in 1..Len(frame.rows)}

\* the columns whose bounds lines 155, 156 and 162 pass through int(); the
\* bounds of the others go through float()
IntCols == {"RAM", "Storage", "Battery Capacity"}

\* int(...) or float(...) around min() and max(), lines 151-163
convert(c, x) == IF c \in IntCols THEN int_of(x) ELSE x

\* pmin, rmin, smin, scmin, bcmin, cammin
lo_of(frame, c) == convert(c, SeqMin(Column(frame, c)))

\* pmax, rmax, smax, scmax, bcmax, cammax
hi_of(frame, c) == convert(c, SeqMax(Column(frame, c)))

----------------------------------------------------------------------------
(* Session state of the filter widgets.  fwidgets maps the key of          *)
(* every widget the last completed run rendered to [params, value]: the    *)
(* parameters the widget was built with, which identify it, and its        *)
(* current value.  A widget built again with the same key and parameters   *)
(* keeps its value; with other parameters it is a new widget and starts at *)
(* its default.  The entry of a widget that a run does not build stays     *)
(* readable through st.session_state during that run and is dropped when   *)
(* the run completes.                                                      *)

KeyOf ==
    ("Price" :> "f_price") @@ ("RAM" :> "f_ram") @@ ("Storage" :> "f_storage") @@
    ("Screen Size" :> "f_screen") @@ ("Battery Capacity" :> "f_batt") @@
    ("main_camera_mp" :> "f_cam")

NumColSet == {NumCols[k] : k \in 1..Len(NumCols)}

\* safe_slider: a slider is built only when lo # hi; otherwise (lo, hi) is
\* returned and no widget with the key exists in this run
safe_slider_builds(lo, hi) == lo # hi

Entry(w, key, params, default) ==
    IF key \in DOMAIN w /\ w[key].params = params THEN w[key]
    ELSE [params |-> params, value |-> default]

\* the numeric columns of frame for which this run builds a slider
SliderCols(frame) ==
    {c \in NumColSet : safe_slider_builds(lo_of(frame, c), hi_of(frame, c))}

\* the widget entries after lines 143-168 have built the widgets from w
Rendered(frame, w) ==
    [key \in {"f_brands"} \cup {KeyOf[c] : c \in SliderCols(frame)} |->
        IF key = "f_brands"
        THEN Entry(w, key, brands_of(frame), brands_of(frame))
        ELSE LET c == CHOOSE c \in NumColSet : KeyOf[c] = key
             IN Entry(w, key, <<lo_of(frame, c), hi_of(frame, c)>>,
                      <<lo_of(frame, c), hi_of(frame, c)>>)]

\* st.session_state as lines 173-179 see it: the widgets built in this run,
\* and the entries left by the previous run for keys built in that run only
DuringRun(frame, w) ==
    LET r == Rendered(frame, w)
    IN [key \in DOMAIN r \cup DOMAIN w |-> IF key \in DOMAIN r THEN r[key] ELSE w[key]]

\* st.session_state.<key> if "<key>" in st.session_state else <default>
StateOr(ss, key, default) ==
    IF key \in DOMAIN ss THEN ss[key].value ELSE default

\* the arguments of isin and between in lines 173-179
Predicates(frame, w) ==
    LET ss == DuringRun(frame, w)
    IN [c \in {"Brand"} \cup NumColSet |->
          IF c = "Brand" THEN StateOr(ss, "f_brands", brands_of(frame))
          ELSE StateOr(ss, KeyOf[c], <<lo_of(frame, c), hi_of(frame, c)>>)]

\* Lines 139-189 of one script run.  r, f, w, ap are recs, filtered, the
\* widget entries and the recorded predicates at that point of the run;
\* apply is the value of the form's submit button; out is what the run has
\* displayed so far.
ResultsBlock(r, f, w, ap, apply, out) ==
    IF IsNone(r) \/ FrameEmpty(Val(r))
    THEN /\ filtered' = f
         /\ applied' = ap
         /\ fwidgets' = <<>>
         /\ shown' = out
    ELSE LET frame == Val(r)
             pred == Predicates(frame, w)
             recompute == apply \/ IsNone(f)
             fr == IF recompute THEN fr_of(frame, pred) ELSE Val(f)
         IN /\ filtered' = Some(fr)
            /\ applied' = IF recompute THEN Some(pred) ELSE ap
            /\ fwidgets' = Rendered(frame, w)
            /\ shown' = out \cup {"form", "success"} \cup
                        (IF FrameEmpty(fr) THEN {"info"} ELSE {"dataframe"})

----------------------------------------------------------------------------
(* The data sets of the sessions *)

UIRow(brand, model, price, ram) ==
    ("Brand" :> brand) @@ ("Model" :> model) @@ ("Price" :> price) @@ ("RAM" :> ram) @@
    ("Storage" :> 640) @@ ("Screen Size" :> 61) @@ ("Battery Capacity" :> 40000) @@
    ("main_camera_mp" :> 120)

\* no entity at all
Data0 == [df |-> <<>>, sim |-> <<>>]

\* one entity
Data1 == [df |-> <<UIRow(<<"A">>, <<"x">>, 10, 40)>>, sim |-> <<<<2>>>>]

\* three entities; positions 0 and 2 share the label "A - x"; seen from
\* position 1 the other two have one price
Data3 ==
    [df |-> <<UIRow(<<"A">>, <<"x">>, 10, 40),
              UIRow(<<"B">>, <<"y">>, 20, 40),
              UIRow(<<"A">>, <<"\n", "", "x", " ", " ">>, 10, 50)>>,
     sim |-> <<<<2, 1, 1>>,
               <<1, 2, 2>>,
               <<1, 2, 2>>>>]

\* three entities with RAM 1.5, 2.5 and 1.5 GB: seen from position 1 the
\* other two share a RAM value that is not a whole number, seen from
\* position 0 the largest RAM is not a whole number
DataF ==
    [df |-> <<UIRow(<<"A">>, <<"x">>, 10, 15),
              UIRow(<<"B">>, <<"y">>, 10, 25),
              UIRow(<<"A">>, <<"x">>, 10, 15)>>,
     sim |-> <<<<2, 1, 1>>,
               <<1, 2, 2>>,
               <<1, 2, 2>>>>]

\* seven entities, enough for Top-N to cut the result short: position 0 is
\* "A - x", the others share "B - y"; similarity falls with the distance of
\* the positions, and only the last entity has another price
Data7 ==
    [df |-> [k \in 1..7 |->
                UIRow(IF k = 1 THEN <<"A">> ELSE <<"B">>, IF k = 1 THEN <<"x">> ELSE <<"y">>,
                      IF k = 7 THEN 20 ELSE 10, 40)],
     sim |-> [i \in 1..7 |-> [j \in 1..7 |-> 7 - Abs(i - j)]]]

Datasets == {Data0, Data1, Data3, DataF, Data7}

\* the values the Top-N input takes in the model: its default and the
\* first TopNChoices values from its minimum
TopNValues == {TopNDefault} \cup {n \in TopNMin..TopNMax : n < TopNMin + TopNChoices}

----------------------------------------------------------------------------
(* The session: one action per script run, named after what triggered it *)

\* the artifacts are loaded and the first script run has ended
Init ==
    /\ \E d \in Datasets : phones_df = d.df /\ cosine_sim = d.sim
    /\ call = None
    /\ SessionStart

\* lines 123-127
chosen_now(suggest_choice) ==
    IF Suggestions(phones_df) # {} /\ ~IsNone(suggest_choice) THEN suggest_choice
    ELSE selected_label

\* A run in which no button is pressed.
PlainRun ==
    /\ ResultsBlock(recs, filtered, fwidgets, applied, FALSE, {"run_btn"})
    /\ asked' = None
    /\ UNCHANGED <<phones_df, cosine_sim, call, selected_label, recs, recs_label>>

\* The user types a search or picks another entry of "Matches": the
\* selectbox now holds label l.
PickSuggestion(l) ==
    /\ l \in Suggestions(phones_df)
    /\ suggest_select' = Some(l)
    /\ UNCHANGED <<browse_select, k_topn>>
    /\ PlainRun

\* The user picks label l in "All models".
PickBrowse(l) ==
    /\ l \in LabelSet(phones_df)
    /\ browse_select' = Some(l)
    /\ UNCHANGED <<suggest_select, k_topn>>
    /\ PlainRun

\* The user changes Top-N.
SetTopN(n) ==
    /\ k_topn' = n
    /\ UNCHANGED <<suggest_select, browse_select>>
    /\ PlainRun

\* "Use this model", lines 118-121: line 119 stores the label, line 120
\* assigns to the key of the text input built at line 96, which Streamlit
\* refuses with an exception, so the run ends there.  A run ended by an
\* exception keeps the entries of the widgets it did not reach.
UseThisModel ==
    /\ selected_label' = browse_select
    /\ shown' = {"exception"}
    /\ asked' = None
    /\ UNCHANGED <<phones_df, cosine_sim, call, recs, filtered, suggest_select,
                   browse_select, k_topn, fwidgets, recs_label, applied>>

\* a faulty variant of ResetFiltered: line 134 is missing
KeepFiltered(f) == f

\* line 134
ResetFiltered(f) == None

\* a faulty variant of Accepted: a label whose result has no row is turned
\* away with the warning, as a label that is not in the catalog is
AcceptedNonEmpty(c) ==
    /\ ~IsNone(c)
    /\ Val(c) \in LabelSet(phones_df)
    /\ ~FrameEmpty(get_recs(phones_df, cosine_sim, Val(c), k_topn))

\* line 131: chosen_now and chosen_now in all_labels
Accepted(c) ==
    /\ ~IsNone(c)
    /\ Val(c) # <<>>
    /\ Val(c) \in LabelSet(phones_df)

\* "Find similar", lines 130-136, then the results block
FindSimilar ==
    /\ "run_btn" \in shown
    /\ LET c == chosen_now(suggest_select)
       IN /\ asked' = Some(c)
          /\ IF Accepted(c)
             THEN LET r == Some(get_recs(phones_df, cosine_sim, Val(c), k_topn))
                  IN /\ selected_label' = c
                     /\ recs' = r
                     /\ recs_label' = c
                     /\ ResultsBlock(r, ResetFiltered(filtered), fwidgets, applied, FALSE,
                                     {"run_btn"})
             ELSE /\ UNCHANGED <<selected_label, recs, recs_label>>
                  /\ ResultsBlock(recs, filtered, fwidgets, applied, FALSE, {"run_btn", "warning"})
    /\ UNCHANGED <<phones_df, cosine_sim, call, suggest_select, browse_select, k_topn>>

\* the sliders the last run built
SliderKeys(w) == DOMAIN w \ {"f_brands"}

\* the positions of a slider from lo to hi that the model lets the user
\* pick: its two ends and the whole units between them (every position of
\* a slider with step 1, some of the positions of one with a finer step)
SliderGrid(lo, hi) == {lo, hi} \cup {v \in lo..hi : v % 10 = 0}

\* the values a user can give the range slider with entry e
SliderChoices(e) ==
    {<<a, b>> : a, b \in SliderGrid(e.params[1], e.params[2])} \cap
    {v \in Int \X Int : v[1] <= v[2]}

\* The user moves the slider with the given key to v.  The slider stands in
\* the sidebar outside filters_form (line 79), so the move starts a run of
\* its own, in which the submit button is False.
MoveSlider(key, v) ==
    /\ "form" \in shown
    /\ key \in SliderKeys(fwidgets)
    /\ v \in SliderChoices(fwidgets[key])
    /\ v # fwidgets[key].value
    /\ LET w == [fwidgets EXCEPT ![key].value = v]
       IN ResultsBlock(recs, filtered, w, applied, FALSE, {"run_btn"})
    /\ asked' = None
    /\ UNCHANGED <<phones_df, cosine_sim, call, selected_label, recs, recs_label,
                   suggest_select, browse_select, k_topn>>

\* the selections a user can make in the Brand multiselect
BrandChoices(w) == IF "f_brands" \in DOMAIN w THEN SUBSET w["f_brands"].params ELSE {}

\* "Apply filters": filters_form is submitted with brands bs selected in its
\* multiselect; the sliders keep the values they have
ApplyFilters(bs) ==
    /\ "form" \in shown
    /\ LET w == [fwidgets EXCEPT !["f_brands"].value = bs]
       IN ResultsBlock(recs, filtered, w, applied, TRUE, {"run_btn"})
    /\ asked' = None
    /\ UNCHANGED <<phones_df, cosine_sim, call, selected_label, recs, recs_label,
                   suggest_select, browse_select, k_topn>>

Next ==
    \/ \E l \in LabelSet(phones_df) : PickSuggestion(l)
    \/ \E l \in LabelSet(phones_df) : PickBrowse(l)
    \/ \E n \in TopNValues : SetTopN(n)
    \/ UseThisModel
    \/ FindSimilar
    \/ \E key \in SliderKeys(fwidgets) : \E v \in SliderChoices(fwidgets[key]) :
          MoveSlider(key, v)
    \/ \E bs \in BrandChoices(fwidgets) : ApplyFilters(bs)

Spec == Init /\ [][Next]_vars

----------------------------------------------------------------------------
(* Properties of get_recs, stated on the last direct call *)

Called == call # None
CallLabel == Val(call).label
CallN == Val(call).n
CallOut == Val(call).out
CallRows == CallOut.ret.rows
CallResolved == Resolves(phones_df, CallLabel)
CallPos == indices(phones_df, CallLabel)
Score(i) == At(At(cosine_sim, CallPos), i)
IdSet == {CallOut.ids[k] : k \in 1..Len(CallOut.ids)}
Others == (0..(Len(phones_df) - 1)) \ {CallPos}

\* C1: no two rows of one result of get_recs carry the same label.
C1_NoDuplicateLabel ==
    Called =>
        \A a, b \in 1..Len(CallRows) :
            a # b => display_name(CallRows[a]) # display_name(CallRows[b])

\* C2: for a label that resolves to position p the result of get_recs never
\* contains position p, whatever its score, and a catalog of one entity
\* gives an empty result.
C2_SelfExcluded ==
    (Called /\ CallResolved) =>
        /\ CallPos \notin IdSet
        /\ \A k \in 1..Len(CallRows) : CallRows[k] # Project(At(phones_df, CallPos))
        /\ (Len(phones_df) = 1 => CallRows = <<>>)

C2_Witness ==
    /\ Called /\ CallResolved
    /\ Len(CallRows) >= 1
    /\ \E j \in IdSet : Score(j) > Score(CallPos)

\* C3: the returned entities are in descending order of their score to the
\* query, equal scores in ascending catalog position, and the rows returned
\* are the rows of those positions.
C3_Ordered ==
    (Called /\ CallResolved) =>
        /\ \A a, b \in 1..Len(CallOut.ids) :
              a < b =>
                \/ Score(CallOut.ids[a]) > Score(CallOut.ids[b])
                \/ /\ Score(CallOut.ids[a]) = Score(CallOut.ids[b])
                   /\ CallOut.ids[a] < CallOut.ids[b]
        /\ \A j \in Others \ IdSet : \A a \in 1..Len(CallOut.ids) :
              \/ Score(CallOut.ids[a]) > Score(j)
              \/ Score(CallOut.ids[a]) = Score(j) /\ CallOut.ids[a] < j
        /\ Len(CallRows) = Len(CallOut.ids)
        /\ \A k \in 1..Len(CallRows) : CallRows[k] = Project(At(phones_df, CallOut.ids[k]))

C3_Witness ==
    /\ Called /\ CallResolved
    /\ \E a, b \in 1..Len(CallOut.ids) :
          a < b /\ Score(CallOut.ids[a]) = Score(CallOut.ids[b])

\* C4: a label that no catalog entity carries gives the empty frame, and no
\* row of the similarity matrix is read.
C4_UnknownLabelEmpty ==
    (Called /\ ~CallResolved) =>
        /\ CallOut.ret = EmptyFrame
        /\ CallOut.ids = <<>>
        /\ CallOut.read = {}

C4_Witness ==
    /\ Called /\ ~CallResolved
    /\ Len(phones_df) >= 2
    /\ CallN >= 1
    /\ Strip(CallLabel) # CallLabel

\* C5: get_recs returns at most n rows, none for n = 0, and fewer than n
\* only when every position but the query's own has been returned.
C5_AtMostN ==
    Called =>
        /\ Len(CallRows) <= CallN
        /\ (CallN = 0 => CallRows = <<>>)
        /\ (CallResolved /\ Len(CallRows) < CallN) => IdSet = Others

C5_Witness ==
    /\ Called /\ CallResolved
    /\ CallN >= 1
    /\ Len(CallRows) = CallN
    /\ Cardinality(Others) > CallN

----------------------------------------------------------------------------
(* Properties of the session *)

HasRecs == ~IsNone(recs) /\ ~FrameEmpty(Val(recs))
HasView == ~IsNone(filtered)
RecRows == Val(recs).rows
ViewRows == Val(filtered).rows
Pred == Val(applied)

\* a is b with some elements left out
IsSubSeq(a, b) ==
    \E f \in [1..Len(a) -> 1..Len(b)] :
        /\ \A i, j \in 1..Len(a) : i < j => f[i] < f[j]
        /\ \A i \in 1..Len(a) : a[i] = b[f[i]]

Satisfies(row) ==
    /\ row["Brand"] \in Pred["Brand"]
    /\ \A c \in NumColSet : Pred[c][1] <= row[c] /\ row[c] <= Pred[c][2]

\* C6: the stored view holds exactly the rows of the recommendation result
\* that satisfy every predicate it was computed with, in the order of the
\* result; with no brand selected it is empty.
C6_FilterExact ==
    HasView =>
        /\ HasRecs /\ ~IsNone(applied)
        /\ \A k \in 1..Len(ViewRows) : Satisfies(ViewRows[k])
        /\ Len(ViewRows) = Cardinality({k \in 1..Len(RecRows) : Satisfies(RecRows[k])})
        /\ IsSubSeq(ViewRows, RecRows)
        /\ (Pred["Brand"] = {} => ViewRows = <<>>)

C6_Witness ==
    /\ HasView /\ HasRecs
    /\ Len(ViewRows) >= 1
    /\ Len(ViewRows) < Len(RecRows)
    /\ \E c \in NumColSet : \E k \in 1..Len(ViewRows) :
          /\ ViewRows[k][c] = Pred[c][2]
          /\ \E j \in 1..Len(RecRows) : RecRows[j][c] < Pred[c][1]

\* C7: "label did not resolve" and "label resolved but nothing to show" are
\* told apart.  get_recs returns the frame without columns exactly for the
\* labels that do not resolve.  In the session, the warning is shown exactly
\* by the runs that 'Find similar' starts with a label that does not
\* resolve; a run that 'Find similar' starts with a label that resolves
\* shows no warning and stores the result of get_recs for that label, a
\* frame with columns, and when that result has no row it shows nothing
\* but the button.
C7_Distinguishable ==
    /\ \A l \in QueryLabels \cup LabelSet(phones_df) : \A n \in 0..MaxN :
          (get_recs(phones_df, cosine_sim, l, n) = EmptyFrame) <=> ~Resolves(phones_df, l)
    /\ "warning" \in shown =>
          LET c == chosen_now(suggest_select)
          IN IsNone(c) \/ ~Resolves(phones_df, Val(c))
    /\ (~IsNone(recs) \/ "info" \in shown) => "warning" \notin shown
    /\ "warning" \in shown <=>
          (~IsNone(asked) /\
              (IsNone(Val(asked)) \/ ~Resolves(phones_df, Val(Val(asked)))))
    /\ (~IsNone(asked) /\ ~IsNone(Val(asked)) /\ Resolves(phones_df, Val(Val(asked)))) =>
          /\ recs_label = Val(asked)
          /\ recs = Some(get_recs(phones_df, cosine_sim, Val(Val(asked)), k_topn))
          /\ Val(recs) # EmptyFrame
          /\ FrameEmpty(Val(recs)) => shown = {"run_btn"}

\* 'Find similar' was pressed with no label that resolves: the warning is
\* shown and no result is stored, where a label that resolves to an empty
\* result stores a frame and shows no warning
C7_Witness ==
    /\ ~IsNone(asked)
    /\ IsNone(Val(asked)) \/ ~Resolves(phones_df, Val(Val(asked)))
    /\ "warning" \in shown
    /\ shown # {"run_btn"}
    /\ IsNone(recs)

\* C8: when every row of the stored recommendation result has one value
\* for a numeric attribute, the predicate the view was computed with admits
\* every row for that attribute.
C8_DegenerateRangePasses ==
    (HasView /\ HasRecs /\ ~IsNone(applied)) =>
        \A c \in NumColSet :
            SeqMin(Column(Val(recs), c)) = SeqMax(Column(Val(recs), c)) =>
                \A k \in 1..Len(RecRows) :
                    Pred[c][1] <= RecRows[k][c] /\ RecRows[k][c] <= Pred[c][2]

\* C9: the stored view is unset or made of rows of the stored
\* recommendation result in that result's order, and whenever results are
\* displayed the view is the filter of the stored result.
C9_ViewOfCurrentRecs ==
    /\ HasView =>
          /\ HasRecs
          /\ Val(filtered).columns = Val(recs).columns
          /\ IsSubSeq(ViewRows, RecRows)
          /\ Val(filtered) = fr_of(Val(recs), Pred)
    /\ "success" \in shown => HasView

C9_Witness ==
    /\ HasView /\ HasRecs
    /\ recs_label # suggest_select
    /\ Len(ViewRows) >= 1
    /\ Len(ViewRows) < Len(RecRows)
    /\ "dataframe" \in shown

\* C10: whenever recommendations are displayed, the label of the
\* "Recommendations for" message is the label the stored result was
\* computed for.
C10_LabelMatchesRecs ==
    "success" \in shown => selected_label = recs_label

====
